---- MODULE Spec2Model ----
(***************************************************************************)
(* Constraint relaxation of thermodynamics-constrained models              *)
(* (pytfa/optim/relaxation.py): relax_dgo and relax_lc.                    *)
(*                                                                         *)
(* A model is a record of typed variables (name -> kind, id, lb, ub), of   *)
(* NegativeDeltaG constraints (reaction id -> expression, lb, ub), of the  *)
(* stoichiometry of its reactions, of RT and of an objective.  Expressions *)
(* are linear: a function from variable names to coefficients.  Quantities *)
(* are integers: one unit is the resolution of the model, and EPSILON, the *)
(* safety margin, is one unit.  The solver is the collaborator's contract: *)
(* optimize() raises SolverError when no point satisfies the bounds and    *)
(* the constraints, and otherwise returns a point of optimal objective.    *)
(***************************************************************************)
EXTENDS Integers, Sequences, FiniteSets, TLC

(***************************************************************************)
(* Bounds of the input models.                                             *)
(***************************************************************************)
MaxDG == 4
MaxWidth == 1

(***************************************************************************)
(* Program constants (in model units).                                     *)
(***************************************************************************)
BIGM_DG == 2
EPSILON == 1

Rxns == {"R1", "R2"}
Mets == {"M1", "M2"}
RxnOrder == <<"R1", "R2">>
MetOrder == <<"M1", "M2">>

\* reaction.metabolites: the stoichiometric coefficients (0: not a member)
Stoich == [r \in Rxns |->
             IF r = "R1" THEN [m \in Mets |-> IF m = "M1" THEN -1 ELSE 1]
                         ELSE [m \in Mets |-> IF m = "M1" THEN -2 ELSE 0]]
RTValues == {1, 2}

SlackKinds == {"NegSlackVariable", "PosSlackVariable", "NegSlackLC", "PosSlackLC"}

\* GenericVariable.name is the prefix of the kind followed by the id
Prefix(kind) ==
    CASE kind = "DeltaGstd"        -> "DGo_"
      [] kind = "DeltaG"           -> "DG_"
      [] kind = "LogConcentration" -> "LC_"
      [] kind = "Flux"             -> "F_"
      [] kind = "NegSlackVariable" -> "NegSlack_"
      [] kind = "PosSlackVariable" -> "PosSlack_"
      [] kind = "NegSlackLC"       -> "NegSlackLC_"
      [] kind = "PosSlackLC"       -> "PosSlackLC_"

VarName(kind, id) == Prefix(kind) \o id

Var(kind, id, lb, ub) == [kind |-> kind, id |-> id, lb |-> lb, ub |-> ub]

EmptyMap == [n \in {} |-> 0]

(***************************************************************************)
(* The typed registry of a model.                                          *)
(***************************************************************************)
\* model.get_variables_of_type(kind): the names of the variables of a kind
get_variables_of_type(m, kind) == {n \in DOMAIN m.vars : m.vars[n].kind = kind}

\* "id in dictlist": membership of an entity id in a typed collection
IdIn(m, kind, id) == \E n \in get_variables_of_type(m, kind) : m.vars[n].id = id

\* dictlist.get_by_id(id).name; called only where IdIn holds
get_by_id(m, kind, id) ==
    CHOOSE n \in get_variables_of_type(m, kind) : m.vars[n].id = id

\* model.add_variable(kind, hook, lb, ub): registers the variable under its name
add_variable(m, kind, id, lb, ub) ==
    [m EXCEPT !.vars = (VarName(kind, id) :> Var(kind, id, lb, ub)) @@ m.vars]

\* model.remove_constraint(c)
remove_constraint(m, rid) ==
    [m EXCEPT !.cons = [r \in (DOMAIN m.cons) \ {rid} |-> m.cons[r]]]

\* model.add_constraint(NegativeDeltaG, reaction, expr, lb, ub)
add_constraint(m, rid, expr, lb, ub) ==
    [m EXCEPT !.cons = (rid :> [expr |-> expr, lb |-> lb, ub |-> ub]) @@ m.cons]

(***************************************************************************)
(* Linear expressions.                                                     *)
(***************************************************************************)
\* expression.subs(subs_dict): every variable replaced by its image
Subs(expr, d) ==
    [n \in {d[k] : k \in DOMAIN expr} |->
        expr[CHOOSE k \in DOMAIN expr : d[k] = n]]

\* expr + c * variable; a term whose coefficient cancels disappears
AddTerm(expr, n, c) ==
    LET old == IF n \in DOMAIN expr THEN expr[n] ELSE 0
        new == old + c
    IN  IF new = 0
        THEN [k \in (DOMAIN expr) \ {n} |-> expr[k]]
        ELSE (n :> new) @@ expr

RECURSIVE SumOver(_, _)
SumOver(f, S) ==
    IF S = {} THEN 0
    ELSE LET n == CHOOSE x \in S : TRUE IN f[n] + SumOver(f, S \ {n})

(***************************************************************************)
(* The solver.                                                             *)
(***************************************************************************)
\* all the assignments of the variables S within their bounds
RECURSIVE Assign(_, _)
Assign(m, S) ==
    IF S = {} THEN {EmptyMap}
    ELSE LET n == CHOOSE x \in S : TRUE
         IN  {(n :> v) @@ f : v \in m.vars[n].lb .. m.vars[n].ub,
                              f \in Assign(m, S \ {n})}

\* the values the terms of expr over the variables S can take
RECURSIVE Attainable(_, _, _)
Attainable(m, expr, S) ==
    IF S = {} THEN {0}
    ELSE LET n == CHOOSE x \in S : TRUE
         IN  {expr[n] * v + w : v \in m.vars[n].lb .. m.vars[n].ub,
                                w \in Attainable(m, expr, S \ {n})}

SlackNames(m) == {n \in DOMAIN m.vars : m.vars[n].kind \in SlackKinds}

\* the variables that occur in more than one constraint
SharedNames(m) ==
    {n \in DOMAIN m.vars :
        \E r1, r2 \in DOMAIN m.cons :
            r1 # r2 /\ n \in DOMAIN m.cons[r1].expr /\ n \in DOMAIN m.cons[r2].expr}

\* a point with the given values satisfies every constraint
FeasibleWith(m, sl) ==
    \E sh \in Assign(m, SharedNames(m) \ DOMAIN sl) :
        LET fixed == sl @@ sh IN
        \A r \in DOMAIN m.cons :
            LET c    == m.cons[r]
                set  == DOMAIN c.expr \cap DOMAIN fixed
                base == SumOver([n \in set |-> c.expr[n] * fixed[n]], set)
            IN  \E w \in Attainable(m, c.expr, (DOMAIN c.expr) \ set) :
                    base + w \in c.lb .. c.ub

ObjValue(m, sl) ==
    LET S == DOMAIN m.objective.expr \cap DOMAIN sl
    IN  SumOver([n \in S |-> m.objective.expr[n] * sl[n]], S)

\* the slack values of the feasible points
FeasibleSlacks(m) == {sl \in Assign(m, SlackNames(m)) : FeasibleWith(m, sl)}

\* model.optimize() succeeds
Feasible(m) == FeasibleSlacks(m) # {}

\* the slack values of the solutions model.optimize() can return
Optimal(m) ==
    LET F == FeasibleSlacks(m)
    IN  {sl \in F : \A t \in F :
            IF m.objective.direction = "min"
            THEN ObjValue(m, sl) <= ObjValue(m, t)
            ELSE ObjValue(m, sl) >= ObjValue(m, t)}

(***************************************************************************)
(* The input models.                                                       *)
(***************************************************************************)
\* the expression of the NegativeDeltaG constraint of reaction r:
\* DGo_r - DG_r + RT * sum(stoich * LC_m) (= 0)
NegativeDeltaGExpr(r, hasDGo, hasLC, rt) ==
    LET ms == {m \in hasLC : Stoich[r][m] # 0}
        e1 == [n \in {VarName("LogConcentration", m) : m \in ms} |->
                 rt * Stoich[r][CHOOSE m \in ms : VarName("LogConcentration", m) = n]]
        e2 == (VarName("DeltaG", r) :> -1) @@ e1
    IN  IF r \in hasDGo THEN (VarName("DeltaGstd", r) :> 1) @@ e2 ELSE e2

ThermoModel(hasDGo, hasCons, hasLC, dgB, dgoB, lcB, rt) ==
    [vars |->
        [n \in {VarName("DeltaGstd", r) : r \in hasDGo} |->
            LET r == CHOOSE x \in hasDGo : VarName("DeltaGstd", x) = n
            IN  Var("DeltaGstd", r, dgoB[1], dgoB[2])]
        @@ [n \in {VarName("DeltaG", r) : r \in Rxns} |->
            LET r == CHOOSE x \in Rxns : VarName("DeltaG", x) = n
            IN  Var("DeltaG", r, dgB[r][1], dgB[r][2])]
        @@ [n \in {VarName("LogConcentration", x) : x \in hasLC} |->
            LET x == CHOOSE y \in hasLC : VarName("LogConcentration", y) = n
            IN  Var("LogConcentration", x, lcB[1], lcB[2])]
        @@ (VarName("Flux", "R1") :> Var("Flux", "R1", 0, 1)),
     cons |-> [r \in hasCons |->
                 [expr |-> NegativeDeltaGExpr(r, hasDGo, hasLC, rt), lb |-> 0, ub |-> 0]],
     stoich |-> Stoich,
     RT |-> rt,
     solver |-> "none",
     objective |-> [expr |-> (VarName("Flux", "R1") :> 1), direction |-> "max"]]

(***************************************************************************)
(* The state of one call of relax_dgo or relax_lc.                         *)
(***************************************************************************)
VARIABLES
    fn,            \* the function called: "relax_dgo" or "relax_lc"
    ignore,        \* reactions_to_ignore, resp. metabolites_to_ignore
    solver,        \* the solver argument
    tmodel_in,     \* the input model as it was when the call began
    models,        \* the model objects: tmodel, slack_model, relaxed_model
    pc,            \* the position in the function
    idx,           \* the position in the loop at pc
    my_neg_dg,     \* the NegativeDeltaG constraints found in slack_model
    objective,     \* the running sum of the slack variables
    neg_slack,     \* relax_lc: LogConcentration name -> NegSlackLC variable
    pos_slack,     \* relax_lc: LogConcentration name -> PosSlackLC variable
    relaxation,    \* the slack values of the solution of slack_model
    changes,       \* entity id -> <<lb_in, ub_in, lb_change, ub_change, lb_out, ub_out>>
    relax_table,   \* the report
    err,           \* the exception that ended the call
    trace          \* the calls made on the models so far

vars == <<fn, ignore, solver, tmodel_in, models, pc, idx, my_neg_dg, objective,
          neg_slack, pos_slack, relaxation, changes, relax_table, err, trace>>

tmodel == models["tmodel"]
slack_model == models["slack_model"]
relaxed_model == models["relaxed_model"]

\* variant: the variables looked up in the input model
my_dgo_tmodel == "tmodel"

\* the model whose DeltaGstd variables my_dgo refers to
my_dgo_model == "relaxed_model"
\* the model whose LogConcentration variables my_lc refers to
my_lc_model == "relaxed_model"

\* the entity ids of my_lc, in the order of the collection
my_lc == SelectSeq(MetOrder, LAMBDA m : IdIn(models[my_lc_model], "LogConcentration", m))

NoTable == [columns |-> <<>>, rows |-> EmptyMap, width |-> -1]
Columns == <<"lb_in", "ub_in", "lb_change", "ub_change", "lb_out", "ub_out">>

Structures ==
    {<<Rxns, Rxns, Mets>>, <<{"R1"}, Rxns, Mets>>, <<Rxns, {"R1"}, Mets>>,
     <<Rxns, Rxns, {"M1"}>>}

Intervals == {<<0, 0>>, <<0 - MaxWidth, MaxWidth>>}

\* the bounds of DeltaG: a direction, and how far from equilibrium
DGIntervals == {<<0 - MaxDG, -1>>, <<1, MaxDG>>, <<2, MaxDG>>}

Init ==
    /\ fn \in {"relax_dgo", "relax_lc"}
    /\ ignore \in IF fn = "relax_dgo" THEN SUBSET Rxns
                  ELSE (SUBSET Mets) \cup {{VarName("LogConcentration", "M1")}}
    /\ solver = "optlang-glpk"
    /\ \E st \in Structures, rt \in RTValues, dgoB \in Intervals, lcB \in Intervals,
          dgB \in [Rxns -> DGIntervals] :
            tmodel_in = [ThermoModel(st[1], st[2], st[3], dgB, dgoB, lcB, rt)
                            EXCEPT !.solver = "optlang-gurobi"]
    /\ models = [o \in {"tmodel"} |-> tmodel_in]
    /\ pc = "start"
    /\ idx = 1
    /\ my_neg_dg = <<>>
    /\ objective = EmptyMap
    /\ neg_slack = EmptyMap
    /\ pos_slack = EmptyMap
    /\ relaxation = EmptyMap
    /\ changes = EmptyMap
    /\ relax_table = NoTable
    /\ err = "none"
    /\ trace = <<>>

\* deepcopy(tmodel) twice, each copy bound to the solver
Deepcopy ==
    /\ pc = "start"
    /\ models' = [o \in {"tmodel", "slack_model", "relaxed_model"} |->
                    IF o = "tmodel" THEN tmodel
                    ELSE [tmodel EXCEPT !.solver = solver]]
    /\ pc' = "probe"
    /\ UNCHANGED <<fn, ignore, solver, tmodel_in, idx, my_neg_dg, objective,
                   neg_slack, pos_slack, relaxation, changes, relax_table, err, trace>>

\* the probe of the input model, then the lookups and the empty accumulators
Probe ==
    /\ pc = "probe"
    /\ trace' = Append(trace, <<"optimize", "tmodel",
                                IF Feasible(tmodel) THEN "ok" ELSE "SolverError">>)
    /\ my_neg_dg' = [i \in 1 .. Len(SelectSeq(RxnOrder, LAMBDA r : r \in DOMAIN slack_model.cons)) |->
                       LET r == SelectSeq(RxnOrder, LAMBDA x : x \in DOMAIN slack_model.cons)[i]
                       IN  [id |-> r, reaction |-> r, expr |-> slack_model.cons[r].expr]]
    /\ changes' = EmptyMap
    /\ objective' = EmptyMap
    /\ neg_slack' = EmptyMap
    /\ pos_slack' = EmptyMap
    /\ idx' = 1
    /\ pc' = IF fn = "relax_dgo" THEN "inject" ELSE "mkslack"
    /\ UNCHANGED <<fn, ignore, solver, tmodel_in, models, relaxation, relax_table, err>>

Raise(e) ==
    /\ pc' = "raised"
    /\ err' = e

\* relax_dgo: one pass of the slack-injection loop over my_neg_dg
InjectDgo ==
    /\ fn = "relax_dgo"
    /\ pc = "inject"
    /\ idx <= Len(my_neg_dg)
    /\ LET this_neg_dg == my_neg_dg[idx]
           id          == this_neg_dg.id
           neg         == VarName("NegSlackVariable", this_neg_dg.reaction)
           pos         == VarName("PosSlackVariable", this_neg_dg.reaction)
           m1          == add_variable(slack_model, "NegSlackVariable",
                                       this_neg_dg.reaction, 0, BIGM_DG)
           m2          == add_variable(m1, "PosSlackVariable",
                                       this_neg_dg.reaction, 0, BIGM_DG)
           subs_dict   == [k \in DOMAIN this_neg_dg.expr |-> k]
           new_expr    == AddTerm(AddTerm(Subs(this_neg_dg.expr, subs_dict), pos, 1),
                                  neg, -1)
           m3          == remove_constraint(m2, id)
           m4          == add_constraint(m3, this_neg_dg.reaction, new_expr, 0, 0)
       IN  IF id \in ignore \/ ~ IdIn(models[my_dgo_model], "DeltaGstd", id)
           THEN UNCHANGED <<models, objective, trace>>
           ELSE /\ models' = [models EXCEPT !["slack_model"] = m4]
                /\ objective' = AddTerm(AddTerm(objective, neg, 1), pos, 1)
                /\ trace' = trace \o <<<<"add_variable", neg, "">>,
                                       <<"add_variable", pos, "">>,
                                       <<"remove_constraint", id, "">>,
                                       <<"add_constraint", this_neg_dg.reaction, "">>>>
    /\ idx' = idx + 1
    /\ UNCHANGED <<fn, ignore, solver, tmodel_in, pc, my_neg_dg, neg_slack, pos_slack,
                   relaxation, changes, relax_table, err>>

\* relax_lc: one pass of the loop over my_lc that creates the slack pairs
MakeSlackLc ==
    /\ fn = "relax_lc"
    /\ pc = "mkslack"
    /\ idx <= Len(my_lc)
    /\ LET id      == my_lc[idx]
           this_lc == models[my_lc_model].vars[get_by_id(models[my_lc_model],
                                                         "LogConcentration", id)]
           name    == VarName(this_lc.kind, this_lc.id)
           neg     == VarName("NegSlackLC", this_lc.id)
           pos     == VarName("PosSlackLC", this_lc.id)
           m1      == add_variable(slack_model, "NegSlackLC", this_lc.id, 0, BIGM_DG)
           m2      == add_variable(m1, "PosSlackLC", this_lc.id, 0, BIGM_DG)
       IN  IF name \in ignore
           THEN UNCHANGED <<models, objective, neg_slack, pos_slack, trace>>
           ELSE /\ models' = [models EXCEPT !["slack_model"] = m2]
                /\ neg_slack' = (name :> neg) @@ neg_slack
                /\ pos_slack' = (name :> pos) @@ pos_slack
                /\ objective' = AddTerm(AddTerm(objective, neg, 1), pos, 1)
                /\ trace' = trace \o <<<<"add_variable", neg, "">>,
                                       <<"add_variable", pos, "">>>>
    /\ idx' = idx + 1
    /\ UNCHANGED <<fn, ignore, solver, tmodel_in, pc, my_neg_dg, relaxation, changes,
                   relax_table, err>>

\* relax_lc: the loop over my_lc is over
EndMakeSlackLc ==
    /\ fn = "relax_lc"
    /\ pc = "mkslack"
    /\ idx > Len(my_lc)
    /\ pc' = "inject"
    /\ idx' = 1
    /\ UNCHANGED <<fn, ignore, solver, tmodel_in, models, my_neg_dg, objective, neg_slack,
                   pos_slack, relaxation, changes, relax_table, err, trace>>

\* variant: the scaling by RT left out
SlackCoefficient_NoRT(rt, stoich) == stoich

\* the coefficient of (pos_slack - neg_slack) of a metabolite in a constraint
SlackCoefficient(rt, stoich) == rt * stoich

\* relax_lc: the slack pairs of the variables S of the constraint added to expr
RECURSIVE InjectSlacks(_, _, _, _)
InjectSlacks(expr, S, reaction, m) ==
    IF S = {} THEN expr
    ELSE LET this_var == CHOOSE x \in S : TRUE
             rest     == InjectSlacks(expr, S \ {this_var}, reaction, m)
         IN  IF this_var \notin DOMAIN neg_slack
             THEN rest
             ELSE LET met_id == m.vars[pos_slack[this_var]].id
                      stoich == m.stoich[reaction][met_id]
                      c      == SlackCoefficient(m.RT, stoich)
                  IN  AddTerm(AddTerm(rest, pos_slack[this_var], c),
                              neg_slack[this_var], 0 - c)

\* relax_lc: one pass of the constraint-rewriting loop over my_neg_dg
InjectLc ==
    /\ fn = "relax_lc"
    /\ pc = "inject"
    /\ idx <= Len(my_neg_dg)
    /\ LET this_neg_dg == my_neg_dg[idx]
           id          == this_neg_dg.id
           subs_dict   == [k \in DOMAIN this_neg_dg.expr |-> k]
           new_expr    == InjectSlacks(Subs(this_neg_dg.expr, subs_dict),
                                       DOMAIN this_neg_dg.expr,
                                       this_neg_dg.reaction, slack_model)
           m1          == remove_constraint(slack_model, id)
           m2          == add_constraint(m1, this_neg_dg.reaction, new_expr, 0, 0)
       IN  IF id \notin {my_neg_dg[i].id : i \in 1 .. Len(my_neg_dg)}
           THEN UNCHANGED <<models, trace>>
           ELSE /\ models' = [models EXCEPT !["slack_model"] = m2]
                /\ trace' = trace \o <<<<"remove_constraint", id, "">>,
                                       <<"add_constraint", this_neg_dg.reaction, "">>>>
    /\ idx' = idx + 1
    /\ UNCHANGED <<fn, ignore, solver, tmodel_in, pc, my_neg_dg, objective, neg_slack,
                   pos_slack, relaxation, changes, relax_table, err>>

\* set_objective, repair, direction 'min' and the solve of slack_model
SlackSolve ==
    /\ pc = "inject"
    /\ idx > Len(my_neg_dg)
    /\ LET m == [slack_model EXCEPT !.objective =
                    [expr |-> objective, direction |-> "min"]]
       IN  /\ models' = [models EXCEPT !["slack_model"] = m]
           /\ IF Feasible(m)
              THEN /\ relaxation' \in Optimal(m)
                   /\ trace' = Append(trace, <<"optimize", "slack_model", "ok">>)
                   /\ pc' = "readback"
                   /\ idx' = 1
                   /\ UNCHANGED err
              ELSE /\ trace' = Append(trace, <<"optimize", "slack_model", "SolverError">>)
                   /\ Raise("SolverError")
                   /\ UNCHANGED <<relaxation, idx>>
    /\ UNCHANGED <<fn, ignore, solver, tmodel_in, my_neg_dg, objective, neg_slack,
                   pos_slack, changes, relax_table>>

\* variant: the exclusion tested on the name of the variable, as at creation
SkipReadBack_ByName(id, ign, m, kind) == VarName(kind, id) \in ign \/ ~ IdIn(m, kind, id)

\* the entity is passed over by the read-back loop
SkipReadBack(id, ign, m, kind) == id \in ign \/ ~ IdIn(m, kind, id)

\* variant: the change applied whatever the slacks
ShouldWiden_Always(delta_lb, delta_ub) == TRUE

\* a bound change is applied and reported
ShouldWiden(delta_lb, delta_ub) == delta_lb > 0 \/ delta_ub > 0

\* variant: the safety margin left out
ApplyChange_NoEpsilon(v, delta_lb, delta_ub) ==
    [v EXCEPT !.lb = v.lb - delta_lb, !.ub = v.ub + delta_ub]

\* the variable after "lb -= (delta_lb + EPSILON); ub += (delta_ub + EPSILON)"
ApplyChange(v, delta_lb, delta_ub) ==
    [v EXCEPT !.lb = v.lb - (delta_lb + EPSILON), !.ub = v.ub + (delta_ub + EPSILON)]

\* one pass of a read-back loop, for the entity id
ReadBack(id, kind, negKind, posKind, owner) ==
    IF SkipReadBack(id, ignore, models[owner], kind)
    THEN UNCHANGED <<models, changes, pc, err, trace>>
    ELSE IF ~ IdIn(slack_model, negKind, id) \/ ~ IdIn(slack_model, posKind, id)
    THEN /\ Raise("KeyError")
         /\ UNCHANGED <<models, changes, trace>>
    ELSE LET the_var  == get_by_id(models[owner], kind, id)
             delta_lb == relaxation[get_by_id(slack_model, negKind, id)]
             delta_ub == relaxation[get_by_id(slack_model, posKind, id)]
             previous == models[owner].vars[the_var]
             new      == ApplyChange(previous, delta_lb, delta_ub)
         IN  IF ShouldWiden(delta_lb, delta_ub)
             THEN /\ models' = [models EXCEPT ![owner].vars[the_var] = new]
                  /\ changes' = (id :> <<previous.lb, previous.ub, delta_lb, delta_ub,
                                         new.lb, new.ub>>) @@ changes
                  /\ trace' = Append(trace, <<"widen", id, "">>)
                  /\ UNCHANGED <<pc, err>>
             ELSE UNCHANGED <<models, changes, pc, err, trace>>

\* relax_dgo: one pass of the read-back loop over relaxed_model.reactions
ReadBackDgo ==
    /\ fn = "relax_dgo"
    /\ pc = "readback"
    /\ idx <= Len(RxnOrder)
    /\ ReadBack(RxnOrder[idx], "DeltaGstd", "NegSlackVariable", "PosSlackVariable",
                my_dgo_model)
    /\ idx' = idx + 1
    /\ UNCHANGED <<fn, ignore, solver, tmodel_in, my_neg_dg, objective, neg_slack,
                   pos_slack, relaxation, relax_table>>

\* relax_lc: one pass of the read-back loop over relaxed_model.metabolites
ReadBackLc ==
    /\ fn = "relax_lc"
    /\ pc = "readback"
    /\ idx <= Len(MetOrder)
    /\ ReadBack(MetOrder[idx], "LogConcentration", "NegSlackLC", "PosSlackLC",
                my_lc_model)
    /\ idx' = idx + 1
    /\ UNCHANGED <<fn, ignore, solver, tmodel_in, my_neg_dg, objective, neg_slack,
                   pos_slack, relaxation, relax_table>>

EntityOrder == IF fn = "relax_dgo" THEN RxnOrder ELSE MetOrder

\* relaxed_model.optimize()
FinalSolve ==
    /\ pc = "readback"
    /\ idx > Len(EntityOrder)
    /\ IF Feasible(relaxed_model)
       THEN /\ trace' = Append(trace, <<"optimize", "relaxed_model", "ok">>)
            /\ pc' = "format"
            /\ UNCHANGED err
       ELSE /\ trace' = Append(trace, <<"optimize", "relaxed_model", "SolverError">>)
            /\ Raise("SolverError")
    /\ UNCHANGED <<fn, ignore, solver, tmodel_in, models, idx, my_neg_dg, objective,
                   neg_slack, pos_slack, relaxation, changes, relax_table>>

\* pd.DataFrame.from_dict(changes, orient = 'index'): one row per key, as many
\* columns as the rows are long, none when there is no row
from_dict(ch) ==
    [columns |-> <<>>,
     rows    |-> ch,
     width   |-> IF DOMAIN ch = {} THEN 0
                 ELSE Len(ch[CHOOSE k \in DOMAIN ch : TRUE])]

\* the report is formatted, logged and returned with the two models
Format ==
    /\ pc = "format"
    /\ LET t == from_dict(changes)
       IN  IF Len(Columns) # t.width
           THEN /\ Raise("ValueError")
                /\ UNCHANGED relax_table
           ELSE /\ relax_table' = [t EXCEPT !.columns = Columns]
                /\ pc' = "returned"
                /\ UNCHANGED err
    /\ UNCHANGED <<fn, ignore, solver, tmodel_in, models, idx, my_neg_dg, objective,
                   neg_slack, pos_slack, relaxation, changes, trace>>

Next ==
    \/ Deepcopy
    \/ Probe
    \/ InjectDgo
    \/ MakeSlackLc
    \/ EndMakeSlackLc
    \/ InjectLc
    \/ SlackSolve
    \/ ReadBackDgo
    \/ ReadBackLc
    \/ FinalSolve
    \/ Format

Spec == Init /\ [][Next]_vars
(***************************************************************************)
(* Observations on a state of the call.                                    *)
(***************************************************************************)
Happened(e) == \E i \in 1 .. Len(trace) : trace[i] = e
Position(e) == CHOOSE i \in 1 .. Len(trace) : trace[i] = e
Count(e) == Cardinality({i \in 1 .. Len(trace) : trace[i] = e})

SlackSolved == Happened(<<"optimize", "slack_model", "ok">>)
SlackFailed == Happened(<<"optimize", "slack_model", "SolverError">>)
FinalSolved == Happened(<<"optimize", "relaxed_model", "ok">>)
FinalFailed == Happened(<<"optimize", "relaxed_model", "SolverError">>)
Copied == DOMAIN models = {"tmodel", "slack_model", "relaxed_model"}

TargetKind == IF fn = "relax_dgo" THEN "DeltaGstd" ELSE "LogConcentration"
NegKind == IF fn = "relax_dgo" THEN "NegSlackVariable" ELSE "NegSlackLC"
PosKind == IF fn = "relax_dgo" THEN "PosSlackVariable" ELSE "PosSlackLC"
Entities == IF fn = "relax_dgo" THEN Rxns ELSE Mets

HasSlackPair(e) == IdIn(slack_model, NegKind, e) /\ IdIn(slack_model, PosKind, e)
NegValue(e) == relaxation[VarName(NegKind, e)]
PosValue(e) == relaxation[VarName(PosKind, e)]
AllSlacksZero == \A n \in DOMAIN relaxation : relaxation[n] = 0

\* the bounds of the target variable of entity e are those of the input
SameBounds(e) ==
    LET n == VarName(TargetKind, e)
    IN  n \in DOMAIN tmodel_in.vars =>
            /\ relaxed_model.vars[n].lb = tmodel_in.vars[n].lb
            /\ relaxed_model.vars[n].ub = tmodel_in.vars[n].ub

(***************************************************************************)
(* C1: whenever the slack minimization succeeds, the final solve of the    *)
(* relaxed model does not fail (relax_dgo and relax_lc, any exclusion      *)
(* set).                                                                   *)
(***************************************************************************)
C1_FeasibilityRestored == SlackSolved => ~ FinalFailed

\* the part of C1 that the code keeps: the final solve fails only in
\* relax_lc with a metabolite id in the exclusion set
C1_FailsOnlyWithExcludedMetabolite ==
    FinalFailed => (fn = "relax_lc" /\ ignore \cap Mets # {})

(***************************************************************************)
(* C2: a call that returns has no report row for an entity of the ignore   *)
(* set, and the bounds of that entity's variable in the relaxed model are  *)
(* those of the input model.                                               *)
(***************************************************************************)
C2_Exclusion ==
    pc = "returned" =>
        \A e \in ignore : e \notin DOMAIN relax_table.rows /\ SameBounds(e)

\* a call returned although an excluded entity had a positive slack
C2_Witness ==
    /\ pc = "returned"
    /\ \E e \in ignore \cap Entities :
        /\ IdIn(relaxed_model, TargetKind, e)
        /\ HasSlackPair(e)
        /\ (NegValue(e) > 0 \/ PosValue(e) > 0)

(***************************************************************************)
(* C3: the report of a call that returns has a row for an entity if and    *)
(* only if one of its two slack values in the slack solution is strictly   *)
(* positive.                                                               *)
(***************************************************************************)
C3_RowIffPositiveSlack ==
    pc = "returned" =>
        \A e \in Entities :
            e \in DOMAIN relax_table.rows <=>
                (HasSlackPair(e) /\ (NegValue(e) > 0 \/ PosValue(e) > 0))

(***************************************************************************)
(* C4: every row of the report of a call that returns has non-negative     *)
(* changes, which are the slack values of the entity, lb_out = lb_in -     *)
(* (lb_change + EPSILON), ub_out = ub_in + (ub_change + EPSILON), with     *)
(* lb_out/ub_out the bounds in the relaxed model and lb_in/ub_in the       *)
(* bounds in the input model.                                              *)
(***************************************************************************)
C4_RowArithmetic ==
    pc = "returned" =>
        \A e \in DOMAIN relax_table.rows :
            LET row == relax_table.rows[e]
                n   == VarName(TargetKind, e)
            IN  /\ row[3] >= 0
                /\ row[4] >= 0
                /\ row[5] = row[1] - (row[3] + EPSILON)
                /\ row[6] = row[2] + (row[4] + EPSILON)
                /\ row[3] = NegValue(e)
                /\ row[4] = PosValue(e)
                /\ row[5] = relaxed_model.vars[n].lb
                /\ row[6] = relaxed_model.vars[n].ub
                /\ row[1] = tmodel_in.vars[n].lb
                /\ row[2] = tmodel_in.vars[n].ub

\* a returned report with a positive lb_change and a positive ub_change
C4_Witness ==
    /\ pc = "returned"
    /\ \E e \in DOMAIN relax_table.rows : relax_table.rows[e][3] > 0
    /\ \E e \in DOMAIN relax_table.rows : relax_table.rows[e][4] > 0

(***************************************************************************)
(* C5: when every slack of the slack solution is zero and the final solve  *)
(* has succeeded, the call does not end in an error, and it returns an     *)
(* empty report with the six columns and the bounds of the input.          *)
(***************************************************************************)
C5_Idempotence ==
    (SlackSolved /\ AllSlacksZero /\ FinalSolved /\ pc \in {"returned", "raised"}) =>
        /\ pc = "returned"
        /\ DOMAIN relax_table.rows = {}
        /\ relax_table.columns = Columns
        /\ \A e \in Entities : SameBounds(e)

(***************************************************************************)
(* C6: the solves are attempted in the order probe, slack minimization,    *)
(* final validation; a failed probe does not end the call; a failed slack  *)
(* minimization ends it before any widening and without a final solve;     *)
(* every widening lies between the successful slack minimization and the   *)
(* final solve; a failed final solve ends the call without outputs; and a  *)
(* call either returns its three outputs or raises a solver failure.       *)
(***************************************************************************)
Solves == SelectSeq(trace, LAMBDA e : e[1] = "optimize")
Widenings == {i \in 1 .. Len(trace) : trace[i][1] = "widen"}
FinalPosition ==
    CHOOSE i \in 1 .. Len(trace) : trace[i][1] = "optimize" /\ trace[i][2] = "relaxed_model"

C6_Ordering ==
    /\ \A i \in 1 .. Len(Solves) :
          Solves[i][2] = <<"tmodel", "slack_model", "relaxed_model">>[i]
    /\ Len(Solves) <= 3
    /\ Happened(<<"optimize", "tmodel", "SolverError">>) =>
          (Len(Solves) = 1 => pc # "raised")
    /\ SlackFailed =>
          /\ pc = "raised" /\ err = "SolverError"
          /\ Widenings = {} /\ Len(Solves) = 2
          /\ relaxed_model = [tmodel_in EXCEPT !.solver = solver]
          /\ relax_table = NoTable
    /\ Widenings # {} =>
          /\ SlackSolved
          /\ \A i \in Widenings : i > Position(<<"optimize", "slack_model", "ok">>)
          /\ (FinalSolved \/ FinalFailed) => \A i \in Widenings : i < FinalPosition
    /\ FinalFailed => (pc = "raised" /\ err = "SolverError" /\ relax_table = NoTable)

C6_SolveOrderAndFailures ==
    /\ C6_Ordering
    /\ pc = "raised" => err = "SolverError"
    /\ pc = "returned" => (relax_table # NoTable /\ SlackSolved /\ FinalSolved)

(***************************************************************************)
(* C7: an entity that is excluded, or has no target variable, or has no    *)
(* slack pair, is skipped by the loops: the call does not raise because of *)
(* it and the report has no row for it.                                    *)
(***************************************************************************)
C7_SilentSkip ==
    \A e \in Entities :
        (e \in ignore \/ ~ IdIn(tmodel_in, TargetKind, e)
            \/ (SlackSolved /\ ~ HasSlackPair(e))) =>
                /\ ~ (pc = "raised" /\ err = "KeyError")
                /\ e \notin DOMAIN changes

(***************************************************************************)
(* C8: the input model is never changed; the returned relaxed model has no *)
(* slack variable, the constraints and the objective of the input, and     *)
(* differs from it only in bounds of the target variables; the returned    *)
(* slack model has the input's bounds on the variables of the input.       *)
(***************************************************************************)
C8_Isolation ==
    /\ tmodel = tmodel_in
    /\ pc = "returned" =>
          /\ SlackNames(relaxed_model) = {}
          /\ relaxed_model.cons = tmodel_in.cons
          /\ relaxed_model.objective = tmodel_in.objective
          /\ DOMAIN relaxed_model.vars = DOMAIN tmodel_in.vars
          /\ \A n \in DOMAIN tmodel_in.vars :
                /\ tmodel_in.vars[n].kind # TargetKind =>
                      relaxed_model.vars[n] = tmodel_in.vars[n]
                /\ slack_model.vars[n] = tmodel_in.vars[n]
          /\ DOMAIN slack_model.vars = DOMAIN tmodel_in.vars \cup SlackNames(slack_model)

\* a call returned after it changed both copies
C8_Witness ==
    /\ pc = "returned"
    /\ SlackNames(slack_model) # {}
    /\ slack_model.cons # tmodel_in.cons
    /\ relaxed_model.vars # tmodel_in.vars

(***************************************************************************)
(* C9 as stated: the lower bound differs from the input's only if the      *)
(* negative slack is strictly positive, the upper bound only if the        *)
(* positive slack is strictly positive.                                    *)
(***************************************************************************)
C9_EachBoundOwnSlack ==
    Copied =>
        \A e \in Entities \ ignore :
            LET n == VarName(TargetKind, e)
            IN  n \in DOMAIN tmodel_in.vars =>
                  /\ relaxed_model.vars[n].lb # tmodel_in.vars[n].lb =>
                        (HasSlackPair(e) /\ NegValue(e) > 0)
                  /\ relaxed_model.vars[n].ub # tmodel_in.vars[n].ub =>
                        (HasSlackPair(e) /\ PosValue(e) > 0)

(***************************************************************************)
(* C9 amended: the two bounds are widened together: the bounds of an       *)
(* entity differ from the input's only if the entity is not excluded and   *)
(* one of its two slacks is strictly positive, and then the lower bound is *)
(* lb_in - (negative slack + EPSILON) and the upper bound is ub_in +       *)
(* (positive slack + EPSILON).                                             *)
(***************************************************************************)
C9_BothBoundsTogether ==
    Copied =>
        \A e \in Entities :
            LET n == VarName(TargetKind, e)
            IN  (n \in DOMAIN tmodel_in.vars
                    /\ relaxed_model.vars[n] # tmodel_in.vars[n]) =>
                  /\ e \notin ignore
                  /\ SlackSolved
                  /\ HasSlackPair(e)
                  /\ (NegValue(e) > 0 \/ PosValue(e) > 0)
                  /\ relaxed_model.vars[n].lb =
                        tmodel_in.vars[n].lb - (NegValue(e) + EPSILON)
                  /\ relaxed_model.vars[n].ub =
                        tmodel_in.vars[n].ub + (PosValue(e) + EPSILON)

\* negative slack 0, positive slack > 0: the lower bound moved by EPSILON
C9_Witness ==
    /\ pc = "returned"
    /\ \E e \in Entities \ ignore :
        LET n == VarName(TargetKind, e)
        IN  /\ n \in DOMAIN tmodel_in.vars
            /\ HasSlackPair(e)
            /\ NegValue(e) = 0
            /\ PosValue(e) > 0
            /\ relaxed_model.vars[n].lb = tmodel_in.vars[n].lb - EPSILON

(***************************************************************************)
(* C10: relax_lc, once the constraints are rewritten: every NegativeDeltaG *)
(* constraint of the input was removed and reinserted once with bounds     *)
(* [0, 0]; its expression is the original one plus RT * s * (pos_slack_M - *)
(* neg_slack_M) for every metabolite M with a slack pair whose             *)
(* LogConcentration variable occurs in it, and no other slack variable     *)
(* occurs in it; each slack variable was created once, with bounds         *)
(* [0, BIGM_DG].                                                           *)
(***************************************************************************)
Rewritten ==
    /\ fn = "relax_lc"
    /\ \/ pc \in {"readback", "format", "returned"}
       \/ (pc = "inject" /\ idx > Len(my_neg_dg))
       \/ (pc = "raised" /\ (SlackSolved \/ SlackFailed))

C10_StoichiometricInjection ==
    Rewritten =>
        /\ DOMAIN slack_model.cons = DOMAIN tmodel_in.cons
        /\ \A r \in DOMAIN tmodel_in.cons :
              LET old  == tmodel_in.cons[r].expr
                  new  == slack_model.cons[r].expr
                  with == {m \in Mets : /\ IdIn(slack_model, "NegSlackLC", m)
                                        /\ IdIn(slack_model, "PosSlackLC", m)
                                        /\ VarName("LogConcentration", m) \in DOMAIN old}
              IN  /\ slack_model.cons[r].lb = 0
                  /\ slack_model.cons[r].ub = 0
                  /\ Count(<<"remove_constraint", r, "">>) = 1
                  /\ Count(<<"add_constraint", r, "">>) = 1
                  /\ DOMAIN new = DOMAIN old
                        \cup {VarName("PosSlackLC", m) : m \in with}
                        \cup {VarName("NegSlackLC", m) : m \in with}
                  /\ \A n \in DOMAIN old : new[n] = old[n]
                  /\ \A m \in with :
                        /\ new[VarName("PosSlackLC", m)] =
                              tmodel_in.RT * tmodel_in.stoich[r][m]
                        /\ new[VarName("NegSlackLC", m)] =
                              0 - tmodel_in.RT * tmodel_in.stoich[r][m]
        /\ \A n \in SlackNames(slack_model) :
              /\ Count(<<"add_variable", n, "">>) = 1
              /\ slack_model.vars[n].lb = 0
              /\ slack_model.vars[n].ub = BIGM_DG
        /\ \A m \in Mets :
              Cardinality({n \in SlackNames(slack_model) : slack_model.vars[n].id = m})
                  \in {0, 2}

\* the returned slack model has -2 * RT on pos_slack_M1 in the constraint of R2,
\* with RT = 2, and M1 takes part in the two reactions
C10_Witness ==
    /\ fn = "relax_lc"
    /\ pc = "returned"
    /\ tmodel_in.RT = 2
    /\ {"R1", "R2"} \subseteq DOMAIN slack_model.cons
    /\ VarName("PosSlackLC", "M1") \in DOMAIN slack_model.cons["R2"].expr
    /\ slack_model.cons["R2"].expr[VarName("PosSlackLC", "M1")] = -4
    /\ VarName("PosSlackLC", "M1") \in DOMAIN slack_model.cons["R1"].expr
====
